---- MODULE Spec2Model ----
(***************************************************************************)
(* Model of src/bot.py: the Save_Any_Restricted_robot Telegram bot.        *)
(*                                                                         *)
(* State: the bot's session dictionary (user_sessions), the wall clock     *)
(* read by datetime.now(), the updates waiting to be dispatched, the       *)
(* handlers suspended at an asyncio.sleep, and the last reply sent.        *)
(* Texts are sequences of one-character strings, so that the regular       *)
(* expressions, str.strip and str.upper of the code are computed.          *)
(***************************************************************************)
EXTENDS Integers, Sequences, FiniteSets, TLC

VARIABLES
    user_sessions,    \* Save_Any_Restricted_robot.user_sessions: Dict[int, UserSession]
    premium_tokens,   \* Save_Any_Restricted_robot.premium_tokens: Set[str]
    now,              \* datetime.now(), in hours
    update_queue,     \* updates received and not yet dispatched, in arrival order
    running,          \* handlers suspended at their asyncio.sleep, oldest first
    reply,            \* the last message the bot sent (reply_text / edit_text)
    completed_login   \* history: users told "Login Successful" who have since
                      \* neither logged out nor restarted the flow

vars == <<user_sessions, premium_tokens, now, update_queue, running, reply, completed_login>>

----------------------------------------------------------------------------
\* Bounds of the model

MaxTime == 4          \* the clock runs from 0 to MaxTime hours
MaxQueue == 1         \* updates that may wait while a handler is suspended

----------------------------------------------------------------------------
\* Configuration and users

OWNER_ID == 1980071557
\* the owner and one other user
Users == {OWNER_ID, 1}

PREMIUM_HOURS == 3

\* Optional[T]: None is the empty tuple, a value x is <<x>>.
None == <<>>
Some(x) == <<x>>

----------------------------------------------------------------------------
\* Characters and the texts users send

DIGITS == {"0", "1", "2", "3", "4", "5", "6", "7", "8", "9"}
LOWER == <<"a", "b", "c", "d", "e", "f", "g", "h", "i", "j", "k", "l", "m", "n", "o", "p", "q", "r", "s", "t", "u", "v", "w", "x", "y", "z">>
UPPER == <<"A", "B", "C", "D", "E", "F", "G", "H", "I", "J", "K", "L", "M", "N", "O", "P", "Q", "R", "S", "T", "U", "V", "W", "X", "Y", "Z">>
WHITESPACE == {" ", "\t", "\n", "\r"}

TXT_PHONE == <<"+", "1", "2", "3", "4", "5", "6", "7", "8", "9", "0">>
TXT_PHONE_PADDED == <<" ", "+", "1", "2", "3", "4", "5", "6", "7", "8", "9", "0", " ">>
TXT_PHONE_SHORT == <<"+", "1", "2", "3", "4", "5", "6", "7", "8", "9">>
TXT_PHONE_LONG == <<"+", "1", "2", "3", "4", "5", "6", "7", "8", "9", "0", "1", "2", "3", "4", "5", "6">>
TXT_CODE == <<"1", "2", "3", "4", "5">>
TXT_CODE_PADDED == <<" ", "1", "2", "3", "4", "5", "\n">>
TXT_CODE_LONG == <<"1", "2", "3", "4", "5", "6">>
TXT_LINK == <<"h", "t", "t", "p", "s", ":", "/", "/", "t", ".", "m", "e", "/", "n", "e", "w", "s", "/", "4", "2">>
TXT_LINK_PRIVATE == <<"h", "t", "t", "p", "s", ":", "/", "/", "t", ".", "m", "e", "/", "c", "/", "5", "5", "5", "/", "4", "2">>
TXT_LINK_ALIAS == <<"h", "t", "t", "p", ":", "/", "/", "t", "e", "l", "e", "g", "r", "a", "m", ".", "m", "e", "/", "n", "e", "w", "s", "/", "4", "2">>
TXT_HELLO == <<"h", "e", "l", "l", "o", " ", "w", "o", "r", "l", "d">>

Texts ==
    { TXT_PHONE, TXT_PHONE_PADDED, TXT_PHONE_SHORT, TXT_PHONE_LONG, TXT_CODE,
      TXT_CODE_PADDED, TXT_CODE_LONG, TXT_LINK, TXT_LINK_PRIVATE, TXT_LINK_ALIAS,
      TXT_HELLO }

TOKEN_PREMIUM2024 == <<"P", "R", "E", "M", "I", "U", "M", "2", "0", "2", "4">>
TOKEN_SAVE3HOURS == <<"S", "A", "V", "E", "3", "H", "O", "U", "R", "S">>
TOKEN_FREEACCESS == <<"F", "R", "E", "E", "A", "C", "C", "E", "S", "S">>
ARG_MIXED == <<"S", "a", "v", "e", "3", "H", "o", "u", "r", "s">>
ARG_BOGUS == <<"P", "R", "E", "M", "I", "U", "M", "2", "0", "2", "5">>

\* the tokens __init__ puts into self.premium_tokens
PREMIUM_TOKENS == { TOKEN_PREMIUM2024, TOKEN_SAVE3HOURS, TOKEN_FREEACCESS }

\* context.args of the /token updates the model sends
TokenArgs == { <<>>, <<TOKEN_PREMIUM2024>>, <<ARG_MIXED>>, <<ARG_BOGUS>> }

----------------------------------------------------------------------------
\* String functions of the code

\* str.lstrip() and str.rstrip()
RECURSIVE lstrip(_)
lstrip(s) == IF s # <<>> /\ Head(s) \in WHITESPACE THEN lstrip(Tail(s)) ELSE s

RECURSIVE rstrip(_)
rstrip(s) ==
    IF s # <<>> /\ s[Len(s)] \in WHITESPACE THEN rstrip(SubSeq(s, 1, Len(s) - 1)) ELSE s

\* str.strip(): leading and trailing whitespace removed
str_strip(s) == rstrip(lstrip(s))

\* str.strip(), computed once for each text of the model
strip_table == [t \in Texts |-> str_strip(t)]
strip(s) == IF s \in DOMAIN strip_table THEN strip_table[s] ELSE str_strip(s)

\* str.upper() on one character
upper_char(c) ==
    IF \E i \in 1..Len(LOWER) : LOWER[i] = c
    THEN UPPER[CHOOSE i \in 1..Len(LOWER) : LOWER[i] = c]
    ELSE c

\* str.upper()
str_upper(s) == [i \in 1..Len(s) |-> upper_char(s[i])]

\* str.upper(), computed once for each token argument of the model
upper_table == [a \in { args[1] : args \in TokenArgs \ {<<>>} } |-> str_upper(a)]
upper(s) == IF s \in DOMAIN upper_table THEN upper_table[s] ELSE str_upper(s)

\* the text a pattern's $ lets end the match: the whole text, or the text
\* without its final newline
before_dollar(s) ==
    IF Len(s) > 0 /\ s[Len(s)] = "\n" THEN { s, SubSeq(s, 1, Len(s) - 1) } ELSE { s }

\* re.match(r'^\+\d{10,15}$', s)
re_match_phone(s) ==
    \E b \in before_dollar(s) :
        /\ Len(b) >= 1
        /\ b[1] = "+"
        /\ Len(b) - 1 >= 10
        /\ Len(b) - 1 <= 15
        /\ \A i \in 2..Len(b) : b[i] \in DIGITS

\* re.match(r'^\d{5}$', s)
re_match_code(s) ==
    \E b \in before_dollar(s) :
        /\ Len(b) = 5
        /\ \A i \in 1..Len(b) : b[i] \in DIGITS

\* the two matches, computed once for each text of the model
match_phone_table == [t \in Texts |-> re_match_phone(t)]
match_phone(s) == IF s \in DOMAIN match_phone_table THEN match_phone_table[s] ELSE re_match_phone(s)
match_code_table == [t \in Texts |-> re_match_code(t)]
match_code(s) == IF s \in DOMAIN match_code_table THEN match_code_table[s] ELSE re_match_code(s)

----------------------------------------------------------------------------
\* Telegram links

LETTERS == { LOWER[i] : i \in 1..Len(LOWER) } \cup { UPPER[i] : i \in 1..Len(UPPER) }

\* the characters \w and \d match
WORD_CHARS == LETTERS \cup DIGITS \cup {"_"}

HOST_T_ME == <<"t", ".", "m", "e", "/">>
HOST_T_ME_C == <<"t", ".", "m", "e", "/", "c", "/">>
HOST_TELEGRAM_ME == <<"t", "e", "l", "e", "g", "r", "a", "m", ".", "m", "e", "/">>
SCHEMES == { <<"h", "t", "t", "p", ":", "/", "/">>, <<"h", "t", "t", "p", "s", ":", "/", "/">> }

\* the three patterns, in the order of the code's lists: the literal after
\* https?:// and the class of the first group
telegram_patterns ==
    << [host |-> HOST_T_ME, class |-> WORD_CHARS],
       [host |-> HOST_T_ME_C, class |-> DIGITS],
       [host |-> HOST_TELEGRAM_ME, class |-> WORD_CHARS] >>

\* the source text of each pattern, as written in parse_telegram_link
PAT1 == <<"h", "t", "t", "p", "s", "?", ":", "/", "/", "t", "\\", ".", "m", "e", "/", "(", "\\", "w", "+", ")", "/", "(", "\\", "d", "+", ")">>
PAT2 == <<"h", "t", "t", "p", "s", "?", ":", "/", "/", "t", "\\", ".", "m", "e", "/", "c", "/", "(", "\\", "d", "+", ")", "/", "(", "\\", "d", "+", ")">>
PAT3 == <<"h", "t", "t", "p", "s", "?", ":", "/", "/", "t", "e", "l", "e", "g", "r", "a", "m", "\\", ".", "m", "e", "/", "(", "\\", "w", "+", ")", "/", "(", "\\", "d", "+", ")">>
pattern_sources == << PAT1, PAT2, PAT3 >>

\* s holds lit at position i
has_at(s, i, lit) ==
    /\ i + Len(lit) - 1 <= Len(s)
    /\ \A k \in 1..Len(lit) : s[i + k - 1] = lit[k]

\* the end of the longest run of characters of class cls that starts at p
\* (p - 1 when s[p] is not of the class)
RECURSIVE run_end(_, _, _)
run_end(s, p, cls) ==
    IF p <= Len(s) /\ s[p] \in cls THEN run_end(s, p + 1, cls) ELSE p - 1

\* the match of pattern pat that starts at position i of s, None when there
\* is none: the scheme and host, a greedy first group, "/", a greedy run of
\* digits
match_at(pat, s, i) ==
    LET schs == { sch \in SCHEMES : has_at(s, i, sch) /\ has_at(s, i + Len(sch), pat.host) }
    IN  IF schs = {} THEN None
        ELSE LET sch == CHOOSE x \in schs : TRUE
                 g1 == i + Len(sch) + Len(pat.host)
                 g1end == run_end(s, g1, pat.class)
                 g2end == run_end(s, g1end + 2, DIGITS)
             IN  IF /\ g1end >= g1
                    /\ g1end + 2 <= Len(s)
                    /\ s[g1end + 1] = "/"
                    /\ g2end >= g1end + 2
                 THEN Some([group1 |-> SubSeq(s, g1, g1end),
                            group2 |-> SubSeq(s, g1end + 2, g2end)])
                 ELSE None

\* re.search(pattern, s): the leftmost match, None when there is none
re_search(pat, s) ==
    LET starts == { i \in 1..Len(s) : match_at(pat, s, i) # None }
    IN  IF starts = {} THEN None
        ELSE match_at(pat, s, CHOOSE i \in starts : \A o \in starts : i <= o)

\* is_telegram_link: the loop over telegram_patterns
search_telegram_patterns(text) ==
    \E k \in 1..Len(telegram_patterns) : re_search(telegram_patterns[k], text) # None

\* is_telegram_link, computed once for each text of the model
is_telegram_link_table == [t \in Texts |-> search_telegram_patterns(t)]
is_telegram_link(text) ==
    IF text \in DOMAIN is_telegram_link_table
    THEN is_telegram_link_table[text] ELSE search_telegram_patterns(text)

digit_value(c) ==
    CASE c = "0" -> 0 [] c = "1" -> 1 [] c = "2" -> 2 [] c = "3" -> 3 [] c = "4" -> 4
      [] c = "5" -> 5 [] c = "6" -> 6 [] c = "7" -> 7 [] c = "8" -> 8 [] c = "9" -> 9

\* int() of a string of digits
RECURSIVE int_of(_)
int_of(ds) ==
    IF ds = <<>> THEN 0
    ELSE 10 * int_of(SubSeq(ds, 1, Len(ds) - 1)) + digit_value(ds[Len(ds)])

\* re.search(pattern, pattern) in the loop of parse_telegram_link: the loop
\* variable shadows the parameter, so each pattern is searched in its own
\* source text
self_search == [k \in 1..Len(telegram_patterns) |->
                    re_search(telegram_patterns[k], pattern_sources[k])]

\* parse_telegram_link: the first pattern whose search gives a match decides;
\* the link is never read
parse_telegram_link(link) ==
    LET hits == { k \in 1..Len(telegram_patterns) : self_search[k] # None }
    IN  IF hits = {} THEN None
        ELSE LET m == self_search[CHOOSE h \in hits : \A o \in hits : h <= o][1]
             IN  Some([channel |-> m.group1, message_id |-> int_of(m.group2)])

----------------------------------------------------------------------------
\* Sessions

owner_id == OWNER_ID

\* UserSession(): the dataclass defaults
UserSession ==
    [ client |-> None, phone |-> None, is_premium |-> FALSE,
      premium_expires |-> None, login_step |-> "none", is_owner |-> FALSE ]

\* session.client and session.client.is_connected()
is_connected(session) ==
    session.client # None /\ session.client[1].connected

\* is_premium_user without its first test, the owner's: the owner is looked up
\* like any other user
is_premium_user_by_session_only(user_id) ==
    IF user_id \in DOMAIN user_sessions
    THEN LET session == user_sessions[user_id]
         IN  IF session.is_premium
             THEN IF session.premium_expires = None THEN TRUE
                  ELSE session.premium_expires[1] > now
             ELSE FALSE
    ELSE FALSE

\* is_premium_user with >= for > in the test of the expiry: a premium is
\* still good at the instant it expires
is_premium_user_expiry_inclusive(user_id) ==
    IF user_id = owner_id THEN TRUE
    ELSE IF user_id \in DOMAIN user_sessions
    THEN LET session == user_sessions[user_id]
         IN  IF session.is_premium
             THEN IF session.premium_expires = None THEN TRUE
                  ELSE session.premium_expires[1] >= now
             ELSE FALSE
    ELSE FALSE

\* is_premium_user
is_premium_user(user_id) ==
    IF user_id = owner_id THEN TRUE
    ELSE IF user_id \in DOMAIN user_sessions
    THEN LET session == user_sessions[user_id]
         IN  IF session.is_premium
             THEN IF session.premium_expires = None THEN TRUE
                  ELSE session.premium_expires[1] > now
             ELSE FALSE
    ELSE FALSE

\* setup_owner_session, on the dictionary us: the dictionary it leaves
setup_owner_session(us, user_id) ==
    IF user_id = owner_id
    THEN LET us1 == IF user_id \notin DOMAIN us THEN us @@ (user_id :> UserSession) ELSE us
         IN  [us1 EXCEPT ![user_id].is_premium = TRUE,
                         ![user_id].premium_expires = None,
                         ![user_id].is_owner = TRUE]
    ELSE us

----------------------------------------------------------------------------
\* Replies

Reply(user_id, m) ==
    [ to |-> user_id, msg |-> m, status |-> <<>>, hours_left |-> 0,
      channel |-> <<>>, message_id |-> 0 ]

StatusReply(user_id, login_status, premium_status, hours_left, usage_limit) ==
    [ to |-> user_id, msg |-> "Status",
      status |-> <<login_status, premium_status, usage_limit>>,
      hours_left |-> hours_left, channel |-> <<>>, message_id |-> 0 ]

SavedReply(user_id, channel_username, message_id) ==
    [ to |-> user_id, msg |-> "MessageSaved", status |-> <<>>, hours_left |-> 0,
      channel |-> channel_username, message_id |-> message_id ]

----------------------------------------------------------------------------
\* Command handlers

\* start_command making a record for every user it has not seen
start_command_creating_session(user_id) ==
    LET us1 == setup_owner_session(user_sessions, user_id)
    IN  /\ user_sessions' = IF user_id \notin DOMAIN us1
                            THEN us1 @@ (user_id :> UserSession) ELSE us1
        /\ reply' = Reply(user_id, IF user_id = owner_id THEN "WelcomeOwner" ELSE "Welcome")
        /\ UNCHANGED <<running, completed_login>>

\* start_command
start_command(user_id) ==
    /\ user_sessions' = setup_owner_session(user_sessions, user_id)
    /\ reply' = Reply(user_id, IF user_id = owner_id THEN "WelcomeOwner" ELSE "Welcome")
    /\ UNCHANGED <<running, completed_login>>

\* help_command: a help text, the owner's or the general one; no session is
\* read or written
help_command(user_id) ==
    /\ reply' = Reply(user_id, IF user_id = owner_id THEN "HelpOwner" ELSE "Help")
    /\ UNCHANGED <<user_sessions, running, completed_login>>

\* upgrade_command: the owner is told no upgrade is needed, others get the
\* premium offer; no session is read or written
upgrade_command(user_id) ==
    /\ reply' = Reply(user_id, IF user_id = owner_id THEN "OwnerNoUpgradeNeeded" ELSE "UpgradeOffer")
    /\ UNCHANGED <<user_sessions, running, completed_login>>

\* owner_command without its test of the user id: the dashboard for everyone
owner_command_for_everyone(user_id) ==
    /\ reply' = Reply(user_id, "OwnerDashboard")
    /\ UNCHANGED <<user_sessions, running, completed_login>>

\* owner_command
owner_command(user_id) ==
    /\ reply' = Reply(user_id, IF user_id # owner_id THEN "OwnerOnly" ELSE "OwnerDashboard")
    /\ UNCHANGED <<user_sessions, running, completed_login>>

\* login_command with a new UserSession() made on every call, also when the
\* user already has a record
login_command_recreating(user_id) ==
    LET us1 == setup_owner_session(user_sessions, user_id)
        us2 == [v \in DOMAIN us1 \cup {user_id} |-> IF v = user_id THEN UserSession ELSE us1[v]]
        session == us2[user_id]
    IN  /\ IF is_connected(session)
           THEN /\ user_sessions' = us2
                /\ reply' = Reply(user_id, "AlreadyLoggedIn")
                /\ UNCHANGED completed_login
           ELSE /\ user_sessions' = [us2 EXCEPT ![user_id].login_step = "phone"]
                /\ reply' = Reply(user_id, "LoginPrompt")
                /\ completed_login' = completed_login \ {user_id}
        /\ UNCHANGED running

\* login_command starting the flow on the free tier: the premium fields are
\* reset together with login_step
login_command_resetting_tier(user_id) ==
    LET us1 == setup_owner_session(user_sessions, user_id)
        us2 == IF user_id \notin DOMAIN us1 THEN us1 @@ (user_id :> UserSession) ELSE us1
        session == us2[user_id]
    IN  /\ IF is_connected(session)
           THEN /\ user_sessions' = us2
                /\ reply' = Reply(user_id, "AlreadyLoggedIn")
                /\ UNCHANGED completed_login
           ELSE /\ user_sessions' = [us2 EXCEPT ![user_id].login_step = "phone",
                                                ![user_id].is_premium = FALSE,
                                                ![user_id].premium_expires = None]
                /\ reply' = Reply(user_id, "LoginPrompt")
                /\ completed_login' = completed_login \ {user_id}
        /\ UNCHANGED running

\* login_command starting over with an empty session: the stored phone is
\* cleared together with login_step
login_command_clearing_phone(user_id) ==
    LET us1 == setup_owner_session(user_sessions, user_id)
        us2 == IF user_id \notin DOMAIN us1 THEN us1 @@ (user_id :> UserSession) ELSE us1
        session == us2[user_id]
    IN  /\ IF is_connected(session)
           THEN /\ user_sessions' = us2
                /\ reply' = Reply(user_id, "AlreadyLoggedIn")
                /\ UNCHANGED completed_login
           ELSE /\ user_sessions' = [us2 EXCEPT ![user_id].login_step = "phone",
                                                ![user_id].phone = None]
                /\ reply' = Reply(user_id, "LoginPrompt")
                /\ completed_login' = completed_login \ {user_id}
        /\ UNCHANGED running

\* login_command
login_command(user_id) ==
    LET us1 == setup_owner_session(user_sessions, user_id)
        us2 == IF user_id \notin DOMAIN us1 THEN us1 @@ (user_id :> UserSession) ELSE us1
        session == us2[user_id]
    IN  /\ IF is_connected(session)
           THEN /\ user_sessions' = us2
                /\ reply' = Reply(user_id, "AlreadyLoggedIn")
                /\ UNCHANGED completed_login
           ELSE /\ user_sessions' = [us2 EXCEPT ![user_id].login_step = "phone"]
                /\ reply' = Reply(user_id, "LoginPrompt")
                /\ completed_login' = completed_login \ {user_id}
        /\ UNCHANGED running

\* logout_command with the owner's branch lost: every session is deleted
logout_command_deleting_owner(user_id) ==
    /\ IF user_id \in DOMAIN user_sessions
       THEN user_sessions' = [v \in DOMAIN user_sessions \ {user_id} |-> user_sessions[v]]
       ELSE UNCHANGED user_sessions
    /\ reply' = Reply(user_id, "LoggedOut")
    /\ completed_login' = completed_login \ {user_id}
    /\ UNCHANGED running

\* logout_command treating every user as it treats the owner: the record is
\* kept, client and login_step are reset
logout_command_keeping_record(user_id) ==
    /\ IF user_id \in DOMAIN user_sessions
       THEN user_sessions' = [user_sessions EXCEPT ![user_id].client = None,
                                                   ![user_id].login_step = "none"]
       ELSE UNCHANGED user_sessions
    /\ reply' = Reply(user_id, "LoggedOut")
    /\ completed_login' = completed_login \ {user_id}
    /\ UNCHANGED running

\* logout_command
logout_command(user_id) ==
    /\ IF user_id \in DOMAIN user_sessions
       THEN IF user_id = owner_id
            THEN user_sessions' = [user_sessions EXCEPT ![user_id].client = None,
                                                        ![user_id].login_step = "none"]
            ELSE user_sessions' = [v \in DOMAIN user_sessions \ {user_id} |-> user_sessions[v]]
       ELSE UNCHANGED user_sessions
    /\ reply' = Reply(user_id, "LoggedOut")
    /\ completed_login' = completed_login \ {user_id}
    /\ UNCHANGED running

\* status_command with a limit of 100 reported to premium users
status_command_limit_hundred(user_id) ==
    LET us1 == setup_owner_session(user_sessions, user_id)
        has == user_id \in DOMAIN us1
        login_status == IF has /\ is_connected(us1[user_id]) THEN "LoggedIn" ELSE "NotLoggedIn"
        timed == /\ user_id # owner_id
                 /\ has
                 /\ us1[user_id].is_premium
                 /\ us1[user_id].premium_expires # None
                 /\ us1[user_id].premium_expires[1] > now
        premium_status ==
            IF user_id = owner_id THEN "OwnerUnlimited"
            ELSE IF timed THEN "PremiumActive"
            ELSE IF has /\ us1[user_id].is_premium /\ us1[user_id].premium_expires = None
                 THEN "PremiumUnlimited"
            ELSE "FreeUser"
        hours_left == IF timed THEN us1[user_id].premium_expires[1] - now ELSE 0
        usage_limit == IF user_id = owner_id THEN "unlimited"
                       ELSE IF is_premium_user(user_id) THEN "100" ELSE "10"
    IN  /\ user_sessions' = us1
        /\ reply' = StatusReply(user_id, login_status, premium_status, hours_left, usage_limit)
        /\ UNCHANGED <<running, completed_login>>

\* status_command
status_command(user_id) ==
    LET us1 == setup_owner_session(user_sessions, user_id)
        has == user_id \in DOMAIN us1
        login_status == IF has /\ is_connected(us1[user_id]) THEN "LoggedIn" ELSE "NotLoggedIn"
        timed == /\ user_id # owner_id
                 /\ has
                 /\ us1[user_id].is_premium
                 /\ us1[user_id].premium_expires # None
                 /\ us1[user_id].premium_expires[1] > now
        premium_status ==
            IF user_id = owner_id THEN "OwnerUnlimited"
            ELSE IF timed THEN "PremiumActive"
            ELSE IF has /\ us1[user_id].is_premium /\ us1[user_id].premium_expires = None
                 THEN "PremiumUnlimited"
            ELSE "FreeUser"
        hours_left == IF timed THEN us1[user_id].premium_expires[1] - now ELSE 0
        usage_limit == IF user_id = owner_id THEN "unlimited"
                       ELSE IF is_premium_user(user_id) THEN "unlimited" ELSE "10"
    IN  /\ user_sessions' = us1
        /\ reply' = StatusReply(user_id, login_status, premium_status, hours_left, usage_limit)
        /\ UNCHANGED <<running, completed_login>>

\* token_command without the owner's early return: the owner redeems tokens
\* like any other user
token_command_for_owner_too(user_id, args) ==
    /\ IF Len(args) = 0
       THEN /\ reply' = Reply(user_id, "TokenUsage")
            /\ UNCHANGED user_sessions
       ELSE LET token == upper(args[1])
            IN  IF token \in premium_tokens
                THEN LET us1 == IF user_id \notin DOMAIN user_sessions
                                THEN user_sessions @@ (user_id :> UserSession)
                                ELSE user_sessions
                     IN  /\ user_sessions' =
                                [us1 EXCEPT ![user_id].is_premium = TRUE,
                                            ![user_id].premium_expires = Some(now + PREMIUM_HOURS)]
                         /\ reply' = Reply(user_id, "TokenActivated")
                ELSE /\ reply' = Reply(user_id, "InvalidToken")
                     /\ UNCHANGED user_sessions
    /\ UNCHANGED <<premium_tokens, running, completed_login>>

\* token_command extending an expiry the session already has, instead of
\* starting again from now
token_command_extending(user_id, args) ==
    /\ IF user_id = owner_id
       THEN /\ reply' = Reply(user_id, "OwnerNoTokenNeeded")
            /\ UNCHANGED user_sessions
       ELSE IF Len(args) = 0
       THEN /\ reply' = Reply(user_id, "TokenUsage")
            /\ UNCHANGED user_sessions
       ELSE LET token == upper(args[1])
            IN  IF token \in premium_tokens
                THEN LET us1 == IF user_id \notin DOMAIN user_sessions
                                THEN user_sessions @@ (user_id :> UserSession)
                                ELSE user_sessions
                         from == IF us1[user_id].premium_expires = None
                                 THEN now ELSE us1[user_id].premium_expires[1]
                     IN  /\ user_sessions' =
                                [us1 EXCEPT ![user_id].is_premium = TRUE,
                                            ![user_id].premium_expires = Some(from + PREMIUM_HOURS)]
                         /\ reply' = Reply(user_id, "TokenActivated")
                ELSE /\ reply' = Reply(user_id, "InvalidToken")
                     /\ UNCHANGED user_sessions
    /\ UNCHANGED <<premium_tokens, running, completed_login>>

\* token_command with tokens that can be redeemed once: a redeemed token is
\* taken off self.premium_tokens
token_command_single_use(user_id, args) ==
    /\ IF user_id = owner_id
       THEN /\ reply' = Reply(user_id, "OwnerNoTokenNeeded")
            /\ UNCHANGED <<user_sessions, premium_tokens>>
       ELSE IF Len(args) = 0
       THEN /\ reply' = Reply(user_id, "TokenUsage")
            /\ UNCHANGED <<user_sessions, premium_tokens>>
       ELSE LET token == upper(args[1])
            IN  IF token \in premium_tokens
                THEN LET us1 == IF user_id \notin DOMAIN user_sessions
                                THEN user_sessions @@ (user_id :> UserSession)
                                ELSE user_sessions
                     IN  /\ user_sessions' =
                                [us1 EXCEPT ![user_id].is_premium = TRUE,
                                            ![user_id].premium_expires = Some(now + PREMIUM_HOURS)]
                         /\ premium_tokens' = premium_tokens \ {token}
                         /\ reply' = Reply(user_id, "TokenActivated")
                ELSE /\ reply' = Reply(user_id, "InvalidToken")
                     /\ UNCHANGED <<user_sessions, premium_tokens>>
    /\ UNCHANGED <<running, completed_login>>

\* token_command
token_command(user_id, args) ==
    /\ IF user_id = owner_id
       THEN /\ reply' = Reply(user_id, "OwnerNoTokenNeeded")
            /\ UNCHANGED user_sessions
       ELSE IF Len(args) = 0
       THEN /\ reply' = Reply(user_id, "TokenUsage")
            /\ UNCHANGED user_sessions
       ELSE LET token == upper(args[1])
            IN  IF token \in premium_tokens
                THEN LET us1 == IF user_id \notin DOMAIN user_sessions
                                THEN user_sessions @@ (user_id :> UserSession)
                                ELSE user_sessions
                     IN  /\ user_sessions' =
                                [us1 EXCEPT ![user_id].is_premium = TRUE,
                                            ![user_id].premium_expires = Some(now + PREMIUM_HOURS)]
                         /\ reply' = Reply(user_id, "TokenActivated")
                ELSE /\ reply' = Reply(user_id, "InvalidToken")
                     /\ UNCHANGED user_sessions
    /\ UNCHANGED <<premium_tokens, running, completed_login>>

----------------------------------------------------------------------------
\* Plain-text messages

\* a handler suspended at its asyncio.sleep
Suspended(user_id, handler) == [user |-> user_id, handler |-> handler]

\* handle_phone_input without phone.strip(): the text is matched and stored
\* as it was sent
handle_phone_input_unstripped(us, user_id, phone) ==
    /\ IF ~match_phone(phone)
       THEN /\ user_sessions' = us
            /\ reply' = Reply(user_id, "InvalidPhoneFormat")
       ELSE /\ user_sessions' = [us EXCEPT ![user_id].phone = Some(phone),
                                           ![user_id].login_step = "code"]
            /\ reply' = Reply(user_id, "CodeSent")
    /\ UNCHANGED <<running, completed_login>>

\* handle_phone_input writing to every session that awaits a phone number,
\* as if the login state were one object shared by the users
handle_phone_input_for_all_waiting(us, user_id, phone) ==
    /\ IF ~match_phone(strip(phone))
       THEN /\ user_sessions' = us
            /\ reply' = Reply(user_id, "InvalidPhoneFormat")
       ELSE /\ user_sessions' =
                   [v \in DOMAIN us |->
                       IF us[v].login_step = "phone"
                       THEN [us[v] EXCEPT !.phone = Some(strip(phone)),
                                          !.login_step = "code"]
                       ELSE us[v]]
            /\ reply' = Reply(user_id, "CodeSent")
    /\ UNCHANGED <<running, completed_login>>

\* handle_phone_input storing the text as it was sent after matching the
\* stripped text
handle_phone_input_storing_raw(us, user_id, phone) ==
    /\ IF ~match_phone(strip(phone))
       THEN /\ user_sessions' = us
            /\ reply' = Reply(user_id, "InvalidPhoneFormat")
       ELSE /\ user_sessions' = [us EXCEPT ![user_id].phone = Some(phone),
                                           ![user_id].login_step = "code"]
            /\ reply' = Reply(user_id, "CodeSent")
    /\ UNCHANGED <<running, completed_login>>

\* handle_phone_input, entered with the dictionary us
handle_phone_input(us, user_id, phone) ==
    /\ IF ~match_phone(strip(phone))
       THEN /\ user_sessions' = us
            /\ reply' = Reply(user_id, "InvalidPhoneFormat")
       ELSE /\ user_sessions' = [us EXCEPT ![user_id].phone = Some(strip(phone)),
                                           ![user_id].login_step = "code"]
            /\ reply' = Reply(user_id, "CodeSent")
    /\ UNCHANGED <<running, completed_login>>

\* handle_code_input without the return after the format error: the handler
\* goes on to the verification
handle_code_input_no_return(us, user_id, code) ==
    /\ user_sessions' = us
    /\ reply' = IF ~match_code(strip(code)) THEN Reply(user_id, "InvalidCodeFormat") ELSE reply
    /\ running' = Append(running, Suspended(user_id, "handle_code_input"))
    /\ UNCHANGED completed_login

\* handle_code_input up to its asyncio.sleep, entered with the dictionary us
handle_code_input(us, user_id, code) ==
    /\ user_sessions' = us
    /\ IF ~match_code(strip(code))
       THEN /\ reply' = Reply(user_id, "InvalidCodeFormat")
            /\ UNCHANGED running
       ELSE /\ running' = Append(running, Suspended(user_id, "handle_code_input"))
            /\ UNCHANGED reply
    /\ UNCHANGED completed_login

\* handle_password_input up to its asyncio.sleep
handle_password_input(us, user_id, password) ==
    /\ user_sessions' = us
    /\ running' = Append(running, Suspended(user_id, "handle_password_input"))
    /\ UNCHANGED <<reply, completed_login>>

\* the verification ending with a second factor asked for: login_step is
\* set to "password" and the user is not yet told of a success
resume_login_asking_second_factor(h) ==
    /\ user_sessions' =
           IF h.user \in DOMAIN user_sessions
           THEN [user_sessions EXCEPT ![h.user].login_step =
                     IF h.handler = "handle_code_input" THEN "password" ELSE "none"]
           ELSE user_sessions
    /\ reply' = Reply(h.user, IF h.handler = "handle_code_input"
                              THEN "TwoFactorRequired" ELSE "TwoFactorSuccessful")
    /\ completed_login' = IF h.handler = "handle_code_input"
                          THEN completed_login ELSE completed_login \cup {h.user}

\* handle_code_input and handle_password_input after the sleep: the write to
\* the session object the handler holds, and the success message
resume_login(h) ==
    /\ user_sessions' =
           IF h.user \in DOMAIN user_sessions
           THEN [user_sessions EXCEPT ![h.user].login_step = "none"]
           ELSE user_sessions
    /\ reply' = Reply(h.user, IF h.handler = "handle_code_input"
                              THEN "LoginSuccessful" ELSE "TwoFactorSuccessful")
    /\ completed_login' = completed_login \cup {h.user}

\* handle_telegram_link: the processing message, edited into the reply that
\* ends the request. The handler reads no session and keeps no count; the
\* sleep of its success branch lies between no two writes.
handle_telegram_link(us, user_id, link) ==
    LET link_info == parse_telegram_link(link)
    IN  /\ user_sessions' = us
        /\ reply' = IF link_info = None
                    THEN Reply(user_id, "InvalidLinkFormat")
                    ELSE SavedReply(user_id, link_info[1].channel, link_info[1].message_id)
        /\ UNCHANGED <<running, completed_login>>

\* handle_message with the link test moved before the login steps
handle_message_links_first(user_id, message_text) ==
    LET us1 == setup_owner_session(user_sessions, user_id)
        step == IF user_id \in DOMAIN us1 THEN us1[user_id].login_step ELSE "none"
    IN  IF is_telegram_link(message_text)
        THEN handle_telegram_link(us1, user_id, message_text)
        ELSE IF step = "phone" THEN handle_phone_input(us1, user_id, message_text)
        ELSE IF step = "code" THEN handle_code_input(us1, user_id, message_text)
        ELSE IF step = "password" THEN handle_password_input(us1, user_id, message_text)
        ELSE /\ user_sessions' = us1
             /\ reply' = Reply(user_id, "NotUnderstood")
             /\ UNCHANGED <<running, completed_login>>

\* handle_message
handle_message(user_id, message_text) ==
    LET us1 == setup_owner_session(user_sessions, user_id)
        step == IF user_id \in DOMAIN us1 THEN us1[user_id].login_step ELSE "none"
    IN  IF step = "phone" THEN handle_phone_input(us1, user_id, message_text)
        ELSE IF step = "code" THEN handle_code_input(us1, user_id, message_text)
        ELSE IF step = "password" THEN handle_password_input(us1, user_id, message_text)
        ELSE IF is_telegram_link(message_text)
        THEN handle_telegram_link(us1, user_id, message_text)
        ELSE /\ user_sessions' = us1
             /\ reply' = Reply(user_id, "NotUnderstood")
             /\ UNCHANGED <<running, completed_login>>

----------------------------------------------------------------------------
\* Callback queries (the buttons under the bot's messages). The update of a
\* callback query has no message: update.message is None, context.args is
\* None, and a handler that calls update.message.reply_text raises there,
\* after the writes it has made; the bot then sends nothing.

\* a handler that raises before it has written anything
raises_before_write ==
    UNCHANGED <<user_sessions, reply, running, completed_login>>

\* login_command on an update without a message: the record is made and
\* login_step written, then reply_text raises
login_command_without_message(user_id) ==
    LET us1 == setup_owner_session(user_sessions, user_id)
        us2 == IF user_id \notin DOMAIN us1 THEN us1 @@ (user_id :> UserSession) ELSE us1
        session == us2[user_id]
    IN  /\ IF is_connected(session)
           THEN /\ user_sessions' = us2
                /\ UNCHANGED completed_login
           ELSE /\ user_sessions' = [us2 EXCEPT ![user_id].login_step = "phone"]
                /\ completed_login' = completed_login \ {user_id}
        /\ UNCHANGED <<reply, running>>

\* status_command on an update without a message: the owner's session is
\* set up, then reply_text raises
status_command_without_message(user_id) ==
    /\ user_sessions' = setup_owner_session(user_sessions, user_id)
    /\ UNCHANGED <<reply, running, completed_login>>

\* show_bot_stats, reached from a callback query: the statistics for the
\* owner; for another user update.message.reply_text raises
show_bot_stats(user_id) ==
    IF user_id # owner_id THEN raises_before_write
    ELSE /\ reply' = Reply(user_id, "BotStats")
         /\ UNCHANGED <<user_sessions, running, completed_login>>

\* show_detailed_stats: the denial for a user other than the owner; for the
\* owner the text reads premium_users and total_users, which the function
\* does not define, and raises
show_detailed_stats(user_id) ==
    IF user_id # owner_id
    THEN /\ reply' = Reply(user_id, "AccessDenied")
         /\ UNCHANGED <<user_sessions, running, completed_login>>
    ELSE raises_before_write

\* the data of the buttons that handle_callback_query has a branch for, and
\* one it has none for
CallbackData ==
    { "start_login", "get_token", "help", "get_premium", "view_status",
      "owner_dashboard", "bot_stats", "save_another", "detailed_stats", "enter_token" }

\* handle_callback_query
handle_callback_query(user_id, data) ==
    CASE data = "start_login" -> login_command_without_message(user_id)
      [] data = "get_token" -> raises_before_write
      [] data = "help" -> raises_before_write
      [] data = "get_premium" -> raises_before_write
      [] data = "view_status" -> status_command_without_message(user_id)
      [] data = "owner_dashboard" ->
            IF user_id = owner_id THEN raises_before_write
            ELSE /\ reply' = Reply(user_id, "AccessDenied")
                 /\ UNCHANGED <<user_sessions, running, completed_login>>
      [] data = "bot_stats" ->
            IF user_id = owner_id THEN show_bot_stats(user_id)
            ELSE /\ reply' = Reply(user_id, "AccessDenied")
                 /\ UNCHANGED <<user_sessions, running, completed_login>>
      [] data = "save_another" ->
            /\ reply' = Reply(user_id, "ReadyForAnotherLink")
            /\ UNCHANGED <<user_sessions, running, completed_login>>
      [] data = "detailed_stats" ->
            IF user_id = owner_id THEN show_detailed_stats(user_id)
            ELSE /\ reply' = Reply(user_id, "AccessDenied")
                 /\ UNCHANGED <<user_sessions, running, completed_login>>
      [] OTHER -> raises_before_write

----------------------------------------------------------------------------
\* Updates and their dispatch (main: the handlers registered on the
\* Application)

Update(user_id, cmd, text, args) ==
    [user |-> user_id, cmd |-> cmd, text |-> text, args |-> args]

Updates ==
    { Update(u, c, <<>>, <<>>) : u \in Users, c \in {"start", "help", "login", "logout", "status", "upgrade", "owner"} }
    \cup { Update(u, "token", <<>>, a) : u \in Users, a \in TokenArgs }
    \cup { Update(u, "text", t, <<>>) : u \in Users, t \in Texts }
    \cup { Update(u, "callback", <<d>>, <<>>) : u \in Users, d \in CallbackData }

\* Application.builder().concurrent_updates(2): two updates handled at once
concurrent_updates_two == 1 + 1

\* Application.builder().token(BOT_TOKEN).build(): concurrent_updates is not
\* set, so it is 0 and an update is handled to its end before the next one
\* is taken; n > 0 would let n updates be handled at once
concurrent_updates == 0

\* handlers registered with block=False: the dispatcher takes the next update
\* while a handler is suspended (two handlers at most)
dispatcher_free_nonblocking ==
    Len(running) < 2

dispatcher_free ==
    IF concurrent_updates = 0 THEN running = <<>> ELSE Len(running) < concurrent_updates

\* the handler the Application runs for an update
process_update(upd) ==
    IF upd.cmd = "token"
    THEN token_command(upd.user, upd.args)
    ELSE /\ CASE upd.cmd = "start" -> start_command(upd.user)
              [] upd.cmd = "owner" -> owner_command(upd.user)
              [] upd.cmd = "help" -> help_command(upd.user)
              [] upd.cmd = "upgrade" -> upgrade_command(upd.user)
              [] upd.cmd = "login" -> login_command(upd.user)
              [] upd.cmd = "logout" -> logout_command(upd.user)
              [] upd.cmd = "status" -> status_command(upd.user)
              [] upd.cmd = "text" -> handle_message(upd.user, upd.text)
              [] upd.cmd = "callback" -> handle_callback_query(upd.user, upd.text[1])
         \* token_command is the only handler that names self.premium_tokens,
         \* but for show_bot_stats, which reads its length
         /\ UNCHANGED premium_tokens

\* An update arrives at a free dispatcher with nothing waiting before it: it
\* is handled at once.
Deliver(upd) ==
    /\ dispatcher_free
    /\ update_queue = <<>>
    /\ process_update(upd)
    /\ UNCHANGED <<update_queue, now>>

\* An update arrives while the dispatcher is busy: it waits in the queue.
Enqueue(upd) ==
    /\ ~(dispatcher_free /\ update_queue = <<>>)
    /\ Len(update_queue) < MaxQueue
    /\ update_queue' = Append(update_queue, upd)
    /\ UNCHANGED <<user_sessions, premium_tokens, now, running, reply, completed_login>>

\* The dispatcher takes the oldest waiting update.
Fetch ==
    /\ update_queue # <<>>
    /\ dispatcher_free
    /\ process_update(Head(update_queue))
    /\ update_queue' = Tail(update_queue)
    /\ UNCHANGED now

\* The sleep of suspended handler i ends and the handler runs to its end.
Resume(i) ==
    /\ i \in 1..Len(running)
    /\ resume_login(running[i])
    /\ running' = [k \in 1..(Len(running) - 1) |-> IF k < i THEN running[k] ELSE running[k + 1]]
    /\ UNCHANGED <<premium_tokens, update_queue, now>>

\* Time passes.
Tick ==
    /\ now < MaxTime
    /\ now' = now + 1
    /\ UNCHANGED <<user_sessions, premium_tokens, update_queue, running, reply, completed_login>>

\* __init__: no sessions
Init ==
    /\ user_sessions = <<>>
    /\ premium_tokens = PREMIUM_TOKENS
    /\ now = 0
    /\ update_queue = <<>>
    /\ running = <<>>
    /\ reply = Reply(0, "none")
    /\ completed_login = {}

\* The bot as its users see it: an update that arrives while a handler is
\* suspended is handled when the handler has ended, so its arrival is taken
\* at that moment.
Next ==
    \/ \E upd \in Updates : Deliver(upd)
    \/ \E i \in 1..Len(running) : Resume(i)
    \/ Tick

Spec == Init /\ [][Next]_vars

\* The bot with the queue of waiting updates made explicit.
NextQueued ==
    \/ \E upd \in Updates : Deliver(upd)
    \/ \E upd \in Updates : Enqueue(upd)
    \/ Fetch
    \/ \E i \in 1..Len(running) : Resume(i)
    \/ Tick

SpecQueued == Init /\ [][NextQueued]_vars

\* The bot on a running event loop: asyncio.sleep(0.5) and asyncio.sleep(1)
\* return, so a suspended handler goes on after a finite time.
SpecFair == Spec /\ WF_vars(\E i \in 1..Len(running) : Resume(i))

----------------------------------------------------------------------------
\* Properties

\* the step handles update upd
Handles(upd) ==
    \/ Deliver(upd)
    \/ (update_queue # <<>> /\ Head(update_queue) = upd /\ Fetch)

TextUpdate(u, t) == Update(u, "text", t, <<>>)

\* user u has a session whose login_step is step
InStep(u, step) ==
    u \in DOMAIN user_sessions /\ user_sessions[u].login_step = step

\* C1, as stated: in AwaitingPhone a text moves the session to AwaitingCode
\* (phone recorded) if and only if the text itself matches ^\+\d{10,15}$;
\* every other text changes nothing and is answered with the phone-format
\* error.
C1_PhoneIffTextMatches ==
    [][\A u \in Users, t \in Texts :
        (InStep(u, "phone") /\ Handles(TextUpdate(u, t))) =>
            IF match_phone(t)
            THEN /\ user_sessions'[u].login_step = "code"
                 /\ user_sessions'[u].phone = Some(t)
            ELSE /\ user_sessions' = user_sessions
                 /\ reply' = Reply(u, "InvalidPhoneFormat")]_vars

\* C1, amended: in AwaitingPhone a text moves the session to AwaitingCode,
\* recording the stripped text as the phone and changing no other field, if
\* and only if the text with its leading and trailing whitespace removed
\* matches ^\+\d{10,15}$; every other text changes nothing and is answered
\* with the phone-format error.
C1_PhoneIffStrippedTextMatches ==
    [][\A u \in Users, t \in Texts :
        (InStep(u, "phone") /\ Handles(TextUpdate(u, t))) =>
            IF match_phone(strip(t))
            THEN /\ user_sessions' =
                        [user_sessions EXCEPT ![u].login_step = "code",
                                              ![u].phone = Some(strip(t))]
                 /\ reply' = Reply(u, "CodeSent")
            ELSE /\ user_sessions' = user_sessions
                 /\ reply' = Reply(u, "InvalidPhoneFormat")]_vars

\* a session has just moved from AwaitingPhone to AwaitingCode
C1_Witness ==
    \E u \in Users :
        /\ InStep(u, "code")
        /\ user_sessions[u].phone = Some(TXT_PHONE)
        /\ reply = Reply(u, "CodeSent")

\* C2: in AwaitingCode a text that is not a well-formed 5-digit code (five
\* digits, surrounding whitespace aside) leaves every field of every session
\* as it was, starts no verification and is answered with the code-format
\* error, whatever was sent before: the session keeps no count of attempts.
\* Only a well-formed code starts the verification that ends AwaitingCode.
C2_MalformedCodeChangesNothing ==
    [][\A u \in Users, t \in Texts :
        (InStep(u, "code") /\ Handles(TextUpdate(u, t))) =>
            LET digits == strip(t)
                well_formed == Len(digits) = 5 /\ \A i \in 1..Len(digits) : digits[i] \in DIGITS
            IN  IF well_formed
                THEN /\ user_sessions' = user_sessions
                     /\ running' = Append(running, Suspended(u, "handle_code_input"))
                ELSE /\ user_sessions' = user_sessions
                     /\ running' = running
                     /\ InStep(u, "code")'
                     /\ reply' = Reply(u, "InvalidCodeFormat")]_vars

\* a session still in AwaitingCode after a malformed code was refused
C2_Witness ==
    \E u \in Users :
        /\ InStep(u, "code")
        /\ reply = Reply(u, "InvalidCodeFormat")
        /\ running = <<>>

\* the replies of the login steps, and those of link handling
LoginStepReplies == {"InvalidPhoneFormat", "CodeSent", "InvalidCodeFormat"}
LinkReplies == {"InvalidLinkFormat", "MessageSaved"}

Waiting(u) ==
    u \in DOMAIN user_sessions /\ user_sessions[u].login_step \in {"phone", "code", "password"}

\* C3: a plain text from a user whose session waits for a phone, a code or a
\* password goes to the login step (it is answered by that step, or starts
\* its verification) and is never answered as a link, also when the text
\* holds a Telegram link; a link is answered as a link only when the user
\* has no session or login_step = "none".
C3_LoginInputBeforeLinks ==
    [][\A u \in Users, t \in Texts :
        Handles(TextUpdate(u, t)) =>
            /\ Waiting(u) =>
                  /\ \/ running' = Append(running, Suspended(u, "handle_code_input"))
                     \/ running' = Append(running, Suspended(u, "handle_password_input"))
                     \/ (reply'.to = u /\ reply'.msg \in LoginStepReplies)
                  /\ ~(reply' # reply /\ reply'.msg \in LinkReplies)
            /\ (~Waiting(u) /\ is_telegram_link(t)) =>
                  (reply'.to = u /\ reply'.msg \in LinkReplies)]_vars

\* a text of a user whose session waits for a phone was answered by the
\* phone step, while another user has a session of their own
C3_Witness ==
    \E u \in Users :
        /\ InStep(u, "phone")
        /\ reply = Reply(u, "InvalidPhoneFormat")
        /\ \E v \in Users \ {u} : v \in DOMAIN user_sessions

C5_AuthenticatedHoldsClient ==
    \A u \in Users :
        /\ u \in completed_login =>
              (u \in DOMAIN user_sessions /\ is_connected(user_sessions[u]))
        /\ (u \in DOMAIN user_sessions /\ u \notin completed_login) =>
              ~is_connected(user_sessions[u])

LogoutUpdate(u) == Update(u, "logout", <<>>, <<>>)

\* C6, as stated: after /logout of any user the user has no session, or a
\* session with no client, login_step = "none" and no phone.
C6_LogoutClearsAuthFields ==
    [][\A u \in Users :
        Handles(LogoutUpdate(u)) =>
            \/ u \notin DOMAIN user_sessions'
            \/ /\ user_sessions'[u].client = None
               /\ user_sessions'[u].login_step = "none"
               /\ user_sessions'[u].phone = None]_vars

\* C7: /logout of the owner keeps the owner's session, with is_premium =
\* True, premium_expires = None and is_owner = True as before; only client
\* and login_step may change, and no other session changes.
C7_OwnerLogoutKeepsTier ==
    [][(owner_id \in DOMAIN user_sessions /\ Handles(LogoutUpdate(owner_id))) =>
        /\ owner_id \in DOMAIN user_sessions'
        /\ user_sessions'[owner_id].is_premium = TRUE
        /\ user_sessions'[owner_id].premium_expires = None
        /\ user_sessions'[owner_id].is_owner = TRUE
        /\ user_sessions' = [user_sessions EXCEPT
                                ![owner_id].client = user_sessions'[owner_id].client,
                                ![owner_id].login_step = user_sessions'[owner_id].login_step]]_vars

\* the owner has logged out after a login and still has the session
C7_Witness ==
    /\ owner_id \in DOMAIN user_sessions
    /\ reply = Reply(owner_id, "LoggedOut")
    /\ user_sessions[owner_id].phone # None
    /\ user_sessions[owner_id].is_premium

\* C8: the access check allows the owner in every reachable state.
C8_OwnerAlwaysAllowed == is_premium_user(owner_id) = TRUE

\* the owner has no session record, and another user's premium has expired
C8_Witness ==
    /\ owner_id \notin DOMAIN user_sessions
    /\ \E u \in DOMAIN user_sessions :
          /\ user_sessions[u].is_premium
          /\ user_sessions[u].premium_expires # None
          /\ user_sessions[u].premium_expires[1] <= now

\* C9: the owner's session, when there is one, has is_premium = True,
\* premium_expires = None and is_owner = True, and no other session has
\* is_owner = True.
C9_OwnerTierFixed ==
    \A u \in DOMAIN user_sessions :
        IF u = owner_id
        THEN /\ user_sessions[u].is_premium = TRUE
             /\ user_sessions[u].premium_expires = None
             /\ user_sessions[u].is_owner = TRUE
        ELSE user_sessions[u].is_owner = FALSE

\* the owner, with a session, has sent /token, and another user holds a
\* time-boxed premium
C9_Witness ==
    /\ owner_id \in DOMAIN user_sessions
    /\ reply = Reply(owner_id, "OwnerNoTokenNeeded")
    /\ \E u \in DOMAIN user_sessions : user_sessions[u].premium_expires # None

TokenUpdate(u, args) == Update(u, "token", <<>>, args)

\* C10: a user other than the owner who redeems a token of the allow-list at
\* time now has, after it, is_premium = True and premium_expires = now + 3
\* hours, whatever expiry the session had before.
C10_RedeemSetsExpiryFromNow ==
    [][\A u \in Users \ {owner_id}, args \in TokenArgs \ {<<>>} :
        (upper(args[1]) \in premium_tokens /\ Handles(TokenUpdate(u, args))) =>
            /\ user_sessions'[u].is_premium = TRUE
            /\ user_sessions'[u].premium_expires = Some(now + 3)]_vars

\* a token was redeemed two hours or more after the clock started
C10_Witness ==
    \E u \in DOMAIN user_sessions :
        /\ reply = Reply(u, "TokenActivated")
        /\ now >= 2
        /\ user_sessions[u].premium_expires = Some(now + 3)

\* C11: for a user other than the owner the access check answers premium
\* when the user has a session with the premium flag set and an expiry
\* that is absent or later than now, and not premium when there is no
\* session, the flag is not set, or the expiry is now or earlier.
C11_EffectivePremium ==
    \A u \in Users \ {owner_id} :
        /\ u \notin DOMAIN user_sessions => is_premium_user(u) = FALSE
        /\ u \in DOMAIN user_sessions =>
              LET session == user_sessions[u]
              IN  /\ ~session.is_premium => is_premium_user(u) = FALSE
                  /\ (session.premium_expires # None /\ session.premium_expires[1] <= now) =>
                        is_premium_user(u) = FALSE
                  /\ (session.is_premium /\
                        (session.premium_expires = None \/ session.premium_expires[1] > now)) =>
                        is_premium_user(u) = TRUE

\* a premium that expires at this very instant, another hour after it was
\* still good
C11_Witness ==
    \E u \in DOMAIN user_sessions :
        /\ u # owner_id
        /\ user_sessions[u].is_premium
        /\ user_sessions[u].premium_expires = Some(now)
        /\ is_premium_user(u) = FALSE

StatusUpdate(u) == Update(u, "status", <<>>, <<>>)

\* user u has a session whose premium has an expiry that is now or earlier
Expired(u) ==
    /\ u \in DOMAIN user_sessions
    /\ user_sessions[u].is_premium
    /\ user_sessions[u].premium_expires # None
    /\ user_sessions[u].premium_expires[1] <= now

\* C12, as stated: when the access check of /status meets a session whose
\* time-boxed premium has expired, the session is left with is_premium
\* false and premium_expires absent.
C12_ExpiredPremiumIsCleared ==
    [][\A u \in Users \ {owner_id} :
        (Expired(u) /\ Handles(StatusUpdate(u))) =>
            /\ user_sessions'[u].is_premium = FALSE
            /\ user_sessions'[u].premium_expires = None]_vars

reference_by(k, t) ==
    LET m == re_search(telegram_patterns[k], t)
    IN  IF m = None THEN None
        ELSE Some([channel |-> m[1].group1, message_id |-> int_of(m[1].group2)])

\* t holds a link of the private shape, t.me/c/<digits>/<digits>
PrivateShape(t) == reference_by(2, t) # None

\* C15, as stated: for every text the bot receives, parse_telegram_link on
\* a text that holds a link of the public shape t.me/<name>/<digits>, or of
\* the telegram.me alias, returns the channel <name> and the message id
\* <digits> as an integer, so "https://t.me/news/42" gives (news, 42); on a
\* text that holds no link, such as "hello world", it returns None.
C15_ParseReturnsReference ==
    [][\A u \in Users, t \in Texts :
        Handles(TextUpdate(u, t)) =>
            /\ t = TXT_LINK =>
                  parse_telegram_link(t) =
                      Some([channel |-> <<"n", "e", "w", "s">>, message_id |-> 42])
            /\ (~PrivateShape(t) /\ reference_by(1, t) # None) =>
                  parse_telegram_link(t) = reference_by(1, t)
            /\ (~PrivateShape(t) /\ reference_by(1, t) = None /\ reference_by(3, t) # None) =>
                  parse_telegram_link(t) = reference_by(3, t)
            /\ ~is_telegram_link(t) => parse_telegram_link(t) = None]_vars

\* C16, as stated: for every text the bot receives, parse_telegram_link on
\* a text that holds a link of the private shape returns the first run of
\* digits as the channel and the second as the message id, so
\* "https://t.me/c/555/42" gives (555, 42), and not the channel "c" with
\* message id 555 of the public pattern.
C16_PrivateLinkParsedAsPrivate ==
    [][\A u \in Users, t \in Texts :
        Handles(TextUpdate(u, t)) =>
            /\ t = TXT_LINK_PRIVATE =>
                  parse_telegram_link(t) =
                      Some([channel |-> <<"5", "5", "5">>, message_id |-> 42])
            /\ PrivateShape(t) => parse_telegram_link(t) = reference_by(2, t)]_vars

\* C17, as stated: a text that is_telegram_link accepts, sent by a user who
\* is not in a login step, is parsed to a reference and answered with the
\* success confirmation, never with the invalid-link-format reply.
C17_DetectedLinkIsSaved ==
    [][\A u \in Users, t \in Texts :
        (~Waiting(u) /\ is_telegram_link(t) /\ Handles(TextUpdate(u, t))) =>
            /\ parse_telegram_link(t) # None
            /\ reply'.to = u
            /\ reply'.msg = "MessageSaved"]_vars

\* the channel of a reference some pattern finds in t is all digits
NumericChannel(t) ==
    \E k \in 1..Len(telegram_patterns) :
        /\ reference_by(k, t) # None
        /\ \A i \in 1..Len(reference_by(k, t)[1].channel) :
              reference_by(k, t)[1].channel[i] \in DIGITS

\* C18, as stated: a link whose channel is all digits, sent by a user who
\* is in no login step and has not completed the login flow, is answered
\* that a login is required ("Private Channel Detected ... Use /login"),
\* and not with the success confirmation.
C18_PrivateLinkNeedsLogin ==
    [][\A u \in Users, t \in Texts :
        (/\ ~Waiting(u)
         /\ u \notin completed_login
         /\ NumericChannel(t)
         /\ Handles(TextUpdate(u, t))) =>
            /\ reply'.to = u
            /\ reply'.msg = "PrivateChannelDetected"]_vars

LoginUpdate(u) == Update(u, "login", <<>>, <<>>)
StartUpdate(u) == Update(u, "start", <<>>, <<>>)

\* the record a handler works on: the user's own when there is one, a new
\* UserSession() otherwise, with the owner's fields set for the owner
GetOrCreate(u) ==
    LET session == IF u \in DOMAIN user_sessions THEN user_sessions[u] ELSE UserSession
    IN  IF u = owner_id
        THEN [session EXCEPT !.is_premium = TRUE, !.premium_expires = None, !.is_owner = TRUE]
        ELSE session

\* the store with the record of u replaced by r, or r added for u
WithRecord(u, r) ==
    [v \in DOMAIN user_sessions \cup {u} |-> IF v = u THEN r ELSE user_sessions[v]]

\* C19: /login, a valid /token and the owner's setup (on /start and
\* /status) make a record for the user only when there is none and work on
\* the existing one otherwise: after the step the store holds, for this
\* user, the record it held (or a new one) changed only in the fields the
\* handler writes, every other record is as before, and no second record
\* appears.
C19_GetOrCreateKeepsFields ==
    [][\A u \in Users :
        /\ Handles(LoginUpdate(u)) =>
              \/ user_sessions' = WithRecord(u, [GetOrCreate(u) EXCEPT !.login_step = "phone"])
              \/ user_sessions' = WithRecord(u, GetOrCreate(u))
        /\ \A args \in TokenArgs \ {<<>>} :
              (u # owner_id /\ upper(args[1]) \in premium_tokens /\ Handles(TokenUpdate(u, args))) =>
                  user_sessions' = WithRecord(u, [GetOrCreate(u) EXCEPT
                                                    !.is_premium = TRUE,
                                                    !.premium_expires = Some(now + PREMIUM_HOURS)])
        /\ (u = owner_id /\ (Handles(StartUpdate(u)) \/ Handles(StatusUpdate(u)))) =>
              user_sessions' = WithRecord(u, GetOrCreate(u))]_vars

\* /login of a user who had a record with a phone and a premium from a
\* token: the record is the same one, now waiting for a phone
C19_Witness ==
    \E u \in DOMAIN user_sessions :
        /\ reply = Reply(u, "LoginPrompt")
        /\ user_sessions[u].login_step = "phone"
        /\ user_sessions[u].phone # None
        /\ user_sessions[u].is_premium
        /\ user_sessions[u].premium_expires # None

----------------------------------------------------------------------------
\* the record of every user but u, and whether there is one, is the same
\* after the step as before it
OthersUnchanged(u) ==
    \A v \in Users \ {u} :
        /\ (v \in DOMAIN user_sessions') = (v \in DOMAIN user_sessions)
        /\ v \in DOMAIN user_sessions => user_sessions'[v] = user_sessions[v]

\* a step of a handler that runs for user u: an update of u is handled, or
\* a handler suspended for u goes on
StepOf(u) ==
    \/ \E upd \in Updates : upd.user = u /\ Handles(upd)
    \/ \E i \in 1..Len(running) : running[i].user = u /\ Resume(i)

\* C21: a handler that runs for user u (a command, a text, a button, or the
\* second half of a verification) leaves the record of every other user as it
\* was, however the updates of the users interleave; and when two users both
\* await their phone number, a well-formed phone number of one moves that
\* user to the code step and leaves the other one waiting for a phone number.
C21_HandlersTouchOwnSessionOnly ==
    [][/\ \A u \in Users : OthersUnchanged(u) \/ ~StepOf(u)
       /\ \A u \in Users, t \in Texts :
            ( /\ \A v \in Users : InStep(v, "phone")
              /\ match_phone(strip(t))
              /\ Handles(TextUpdate(u, t)) ) =>
                /\ user_sessions'[u].login_step = "code"
                /\ user_sessions'[u].phone = Some(strip(t))
                /\ \A v \in Users \ {u} : user_sessions'[v] = user_sessions[v]]_vars

\* both users have sent their phone number, one after the other, and both
\* wait for their code
C21_Witness ==
    /\ \A u \in Users : InStep(u, "code") /\ user_sessions[u].phone # None
    /\ reply.msg = "CodeSent"

----------------------------------------------------------------------------
\* a handler of user u is suspended in its verification
Pending(u) == \E i \in 1..Len(running) : running[i].user = u

\* C22: a /logout that arrives while the verification of the user is pending
\* waits until the verification has ended, so the verification is never
\* completed after the logout: when /logout is handled no verification of
\* the user is pending before or after it, the user is left without a record
\* or with login_step = "none" and no client, and a verification that
\* completes finds the session still in its code step, with no logout
\* acknowledged in between.
C22_LogoutOutlastsPendingVerification ==
    [][/\ \A u \in Users :
            Handles(LogoutUpdate(u)) =>
                /\ ~Pending(u)
                /\ ~Pending(u)'
                /\ reply' = Reply(u, "LoggedOut")
                /\ \/ u \notin DOMAIN user_sessions'
                   \/ /\ user_sessions'[u].login_step = "none"
                      /\ ~is_connected(user_sessions'[u])
       /\ \A i \in 1..Len(running) :
            Resume(i) =>
                /\ InStep(running[i].user, "code")
                /\ reply # Reply(running[i].user, "LoggedOut")
                /\ (update_queue # <<>> /\ Head(update_queue) = LogoutUpdate(running[i].user)) =>
                       (update_queue' = update_queue /\ dispatcher_free')]_vars

\* the user has sent a well-formed code and, while its verification is
\* pending, /logout, which waits
C22_Witness ==
    \E u \in Users :
        /\ Pending(u)
        /\ InStep(u, "code")
        /\ update_queue # <<>>
        /\ Head(update_queue) = LogoutUpdate(u)

----------------------------------------------------------------------------
\* user u is Unauthenticated: no record, or a record with login_step = "none"
\* and no connected client
Unauthenticated(u) ==
    \/ u \notin DOMAIN user_sessions
    \/ /\ user_sessions[u].login_step = "none"
       /\ ~is_connected(user_sessions[u])

\* C23: /login of an Unauthenticated user leaves the user with a record whose
\* login_step is "phone" and asks for the phone number; a record that was
\* there keeps its is_premium, premium_expires and is_owner (and every other
\* field but login_step), and a record made for the occasion is a new
\* UserSession with the tier of a free user, or of the owner for the owner.
C23_LoginAwaitsPhoneKeepingTier ==
    [][\A u \in Users :
        (Unauthenticated(u) /\ Handles(LoginUpdate(u))) =>
            /\ u \in DOMAIN user_sessions'
            /\ user_sessions'[u].login_step = "phone"
            /\ reply' = Reply(u, "LoginPrompt")
            /\ u \in DOMAIN user_sessions =>
                 /\ user_sessions'[u].is_premium = user_sessions[u].is_premium
                 /\ user_sessions'[u].premium_expires = user_sessions[u].premium_expires
                 /\ user_sessions'[u].is_owner = user_sessions[u].is_owner
                 /\ user_sessions'[u] = [user_sessions[u] EXCEPT !.login_step = "phone"]
            /\ u \notin DOMAIN user_sessions =>
                 /\ user_sessions'[u].is_premium = (u = owner_id)
                 /\ user_sessions'[u].premium_expires = None
                 /\ user_sessions'[u].is_owner = (u = owner_id)]_vars

\* a user with token premium and no login has sent /login: the session awaits
\* the phone number and is premium as before
C23_Witness ==
    \E u \in Users \ {owner_id} :
        /\ InStep(u, "phone")
        /\ user_sessions[u].is_premium
        /\ user_sessions[u].premium_expires # None
        /\ reply = Reply(u, "LoginPrompt")

----------------------------------------------------------------------------
\* C24, as stated: the verification of a well-formed code ends with the user
\* Authenticated (login_step = "none" and a connected client) or in
\* AwaitingSecondFactor (login_step = "password"), and the verification of a
\* second factor ends with the user Authenticated.
C24_CodeLeadsToAuthenticatedOrSecondFactor ==
    [][\A i \in 1..Len(running) :
        Resume(i) =>
            LET u == running[i].user
            IN  /\ u \in DOMAIN user_sessions'
                /\ \/ /\ user_sessions'[u].login_step = "none"
                      /\ is_connected(user_sessions'[u])
                   \/ /\ running[i].handler = "handle_code_input"
                      /\ user_sessions'[u].login_step = "password"]_vars

\* no statement writes login_step = "password": no session ever awaits a
\* second factor, and handle_password_input never runs
SecondFactorNeverAwaited ==
    /\ \A u \in DOMAIN user_sessions : user_sessions[u].login_step # "password"
    /\ \A i \in 1..Len(running) : running[i].handler # "handle_password_input"

----------------------------------------------------------------------------
OwnerUpdate(u) == Update(u, "owner", <<>>, <<>>)
CallbackUpdate(u, data) == Update(u, "callback", <<data>>, <<>>)

\* C25: for a user other than the owner, /owner is answered with the
\* owner-only message and the buttons owner_dashboard, bot_stats and
\* detailed_stats with "Access denied"; none of them shows the dashboard or
\* the statistics, and the session store is as before.
C25_OwnerViewsDeniedToOthers ==
    [][\A u \in Users \ {owner_id} :
        /\ Handles(OwnerUpdate(u)) =>
              /\ reply' = Reply(u, "OwnerOnly")
              /\ user_sessions' = user_sessions
        /\ \A data \in {"owner_dashboard", "bot_stats", "detailed_stats"} :
              Handles(CallbackUpdate(u, data)) =>
                  /\ reply' = Reply(u, "AccessDenied")
                  /\ user_sessions' = user_sessions]_vars

\* a user other than the owner, with a session, has been denied a view of
\* the owner, while the owner has a session too
C25_Witness ==
    \E u \in Users \ {owner_id} :
        /\ reply.to = u
        /\ reply.msg \in {"OwnerOnly", "AccessDenied"}
        /\ u \in DOMAIN user_sessions
        /\ owner_id \in DOMAIN user_sessions

----------------------------------------------------------------------------
\* user u has a record with the premium flag set
FlaggedPremium(u) == u \in DOMAIN user_sessions /\ user_sessions[u].is_premium

\* C26: /token by the owner, /token without an argument and /token with a
\* code that, in capitals, is not in premium_tokens leave user_sessions as it
\* was; no /token changes premium_tokens; and the premium flag of a user
\* other than the owner is raised only by the step that redeems a listed
\* token for that user.
C26_OnlyListedTokensGrantPremium ==
    [][/\ \A u \in Users, args \in TokenArgs :
            Handles(TokenUpdate(u, args)) =>
                /\ premium_tokens' = premium_tokens
                /\ ( \/ u = owner_id
                     \/ args = <<>>
                     \/ upper(args[1]) \notin premium_tokens ) =>
                       /\ user_sessions' = user_sessions
                       /\ reply'.msg \in {"OwnerNoTokenNeeded", "TokenUsage", "InvalidToken"}
       /\ \A u \in Users \ {owner_id} :
            \/ FlaggedPremium(u) \/ ~FlaggedPremium(u)'
            \/ \E args \in TokenArgs \ {<<>>} :
                  upper(args[1]) \in premium_tokens /\ Handles(TokenUpdate(u, args))]_vars

\* a user without a record has sent /token with a code that is not listed:
\* the code is refused and there is still no record
C26_Witness ==
    \E u \in Users \ {owner_id} :
        /\ reply = Reply(u, "InvalidToken")
        /\ u \notin DOMAIN user_sessions
        /\ premium_tokens = PREMIUM_TOKENS

----------------------------------------------------------------------------
\* C27, as stated: /login of a user who has completed the login flow and has
\* not logged out is answered "already logged in" and leaves the session as
\* it was, with login_step = "none".
C27_LoginAfterLoginIsRefused ==
    [][\A u \in Users :
        (u \in completed_login /\ Handles(LoginUpdate(u))) =>
            /\ reply' = Reply(u, "AlreadyLoggedIn")
            /\ user_sessions' = user_sessions
            /\ user_sessions'[u].login_step = "none"]_vars

----------------------------------------------------------------------------
\* C28: /login of a user whose session awaits the code (or a second factor)
\* sets login_step back to "phone" and changes nothing else, so the stored
\* phone stays; and the text that follows is taken as a phone number: it is
\* answered with the phone-format error or with "code sent", and no
\* verification of a code starts, also when the text is a well-formed code.
C28_LoginRestartsFlowKeepingPhone ==
    [][\A u \in Users :
        /\ ((InStep(u, "code") \/ InStep(u, "password")) /\ Handles(LoginUpdate(u))) =>
              /\ user_sessions' = [user_sessions EXCEPT ![u].login_step = "phone"]
              /\ user_sessions'[u].phone = user_sessions[u].phone
              /\ user_sessions'[u].phone # None
              /\ reply' = Reply(u, "LoginPrompt")
        /\ \A t \in Texts :
              ( /\ InStep(u, "phone")
                /\ user_sessions[u].phone # None
                /\ Handles(TextUpdate(u, t)) ) =>
                  /\ reply' = Reply(u, IF match_phone(strip(t))
                                       THEN "CodeSent" ELSE "InvalidPhoneFormat")
                  /\ running' = running]_vars

\* a user whose phone is stored has sent /login again and then a well-formed
\* code: the session still awaits the phone number and the code was refused
\* as one
C28_Witness ==
    \E u \in Users :
        /\ InStep(u, "phone")
        /\ user_sessions[u].phone # None
        /\ reply = Reply(u, "InvalidPhoneFormat")
        /\ running = <<>>

----------------------------------------------------------------------------
\* the record of user u, if there is one, is still there after the step with
\* the is_premium and premium_expires it had
TierKept(u) ==
    \/ u \notin DOMAIN user_sessions
    \/ /\ u \in DOMAIN user_sessions'
       /\ user_sessions'[u].is_premium = user_sessions[u].is_premium
       /\ user_sessions'[u].premium_expires = user_sessions[u].premium_expires

\* a step of the login flow of user u: /login, a text taken as phone number
\* or as code, or the end of a verification
LoginFlowStep(u) ==
    \/ Handles(LoginUpdate(u))
    \/ /\ InStep(u, "phone") \/ InStep(u, "code")
       /\ \E t \in Texts : Handles(TextUpdate(u, t))
    \/ \E i \in 1..Len(running) : running[i].user = u /\ Resume(i)

\* C29: /logout of a user other than the owner leaves the user without a
\* record, so the access check answers "not premium" right after it, also
\* when a redeemed token had not expired; the answer becomes "premium" again
\* only by the step that redeems a listed token for the user; and no step of
\* the login flow changes is_premium or premium_expires of a record.
C29_LogoutDropsTokenPremium ==
    [][/\ \A u \in Users \ {owner_id} :
            /\ Handles(LogoutUpdate(u)) =>
                  /\ u \notin DOMAIN user_sessions'
                  /\ ~is_premium_user(u)'
            /\ \/ is_premium_user(u) \/ ~is_premium_user(u)'
               \/ \E args \in TokenArgs \ {<<>>} :
                     upper(args[1]) \in premium_tokens /\ Handles(TokenUpdate(u, args))
       /\ \A u \in Users : TierKept(u) \/ ~LoginFlowStep(u)]_vars

\* a user other than the owner has logged out at a time when no token can
\* have expired: the record is gone and the access check answers "not
\* premium"
C29_Witness ==
    \E u \in Users \ {owner_id} :
        /\ reply = Reply(u, "LoggedOut")
        /\ u \notin DOMAIN user_sessions
        /\ ~is_premium_user(u)
        /\ 0 < now /\ now < PREMIUM_HOURS

----------------------------------------------------------------------------
\* the phone of user u is the same after the step as before it, where a user
\* without a record has none
PhoneKept(u) ==
    \/ u \notin DOMAIN user_sessions'
    \/ user_sessions'[u].phone =
          (IF u \in DOMAIN user_sessions THEN user_sessions[u].phone ELSE None)

\* C30: in every reachable state the login_step of every session is "none",
\* "phone", "code" or "password", and a session whose login_step is "code"
\* has a phone that matches ^\+\d{10,15}$; and the phone of a session is
\* written only by the step that accepts a phone number while the session
\* awaits one.
C30_LoginStepAndPhoneWellFormed ==
    /\ [](\A u \in DOMAIN user_sessions :
            /\ user_sessions[u].login_step \in {"none", "phone", "code", "password"}
            /\ user_sessions[u].login_step = "code" =>
                  /\ user_sessions[u].phone # None
                  /\ re_match_phone(user_sessions[u].phone[1]))
    /\ [][\A u \in Users :
            \/ PhoneKept(u)
            \/ /\ InStep(u, "phone")
               /\ \E t \in Texts : match_phone(strip(t)) /\ Handles(TextUpdate(u, t))]_vars

\* a session awaits the code with a phone that was sent with blanks around
\* it and is stored without them
C30_Witness ==
    \E u \in DOMAIN user_sessions :
        /\ user_sessions[u].login_step = "code"
        /\ user_sessions[u].phone = Some(strip(TXT_PHONE_PADDED))
        /\ reply = Reply(u, "CodeSent")

----------------------------------------------------------------------------
\* the dispatcher takes the update now, or a handler is suspended and its
\* sleep can end, after which the dispatcher is free
NotBlocked(upd) ==
    IF dispatcher_free
    THEN ENABLED Deliver(upd)
    ELSE ENABLED (\E i \in 1..Len(running) : Resume(i))

\* C31: whatever the state of the session, /login leaves it waiting for the
\* phone number; a well-formed phone number then leaves it waiting for the
\* code with that number stored; a well-formed code then starts the
\* verification, which, its sleep ending, leaves login_step = "none", the
\* phone as submitted and the user told that the login succeeded. A
\* verification that has started does end, and in no reachable state are
\* /login and /logout kept from being handled.
C31_LoginFlowCompletes ==
    /\ [][\A u \in Users :
            /\ Handles(LoginUpdate(u)) => InStep(u, "phone")'
            /\ \A t \in Texts :
                 /\ ( /\ InStep(u, "phone")
                      /\ match_phone(strip(t))
                      /\ Handles(TextUpdate(u, t)) ) =>
                        /\ InStep(u, "code")'
                        /\ user_sessions'[u].phone = Some(strip(t))
                 /\ ( /\ InStep(u, "code")
                      /\ match_code(strip(t))
                      /\ Handles(TextUpdate(u, t)) ) =>
                        /\ Pending(u)'
                        /\ user_sessions' = user_sessions
            /\ \A i \in 1..Len(running) :
                 (running[i].user = u /\ Resume(i)) =>
                     /\ user_sessions' = [user_sessions EXCEPT ![u].login_step = "none"]
                     /\ user_sessions'[u].phone # None
                     /\ re_match_phone(user_sessions'[u].phone[1])
                     /\ u \in completed_login'
                     /\ reply' = Reply(u, "LoginSuccessful")]_vars
    /\ \A u \in Users :
            Pending(u) ~> (~Pending(u) /\ InStep(u, "none") /\ u \in completed_login)
    /\ [](\A u \in Users : NotBlocked(LoginUpdate(u)) /\ NotBlocked(LogoutUpdate(u)))

\* a user who held token premium has gone through /login, the phone number
\* and the code: the login is complete and the submitted phone is stored
C31_Witness ==
    \E u \in Users \ {owner_id} :
        /\ u \in completed_login
        /\ InStep(u, "none")
        /\ user_sessions[u].phone = Some(TXT_PHONE)
        /\ user_sessions[u].is_premium
        /\ reply = Reply(u, "LoginSuccessful")
        /\ running = <<>>

====
